---- MODULE Spec2Model ----
(***************************************************************************)
(* Model of the document-submission route of behzodk/shartnoma:            *)
(*   - validateTelegramInitData, the verifier of Telegram WebApp init data *)
(*   - the GET / POST / PUT handlers of /api/document-submissions, run as  *)
(*     concurrent requests against the Supabase table document_submissions *)
(*     and the storage bucket shartnoma_zip.                               *)
(* A string is a sequence of one-character strings; a JavaScript value is  *)
(* a tagged record.                                                        *)
(***************************************************************************)
EXTENDS Integers, Sequences, FiniteSets, TLC

(***************************************************************************)
(* Bounds of the model.                                                    *)
(***************************************************************************)
\* Bytes of a digest (SHA-256 has 32; the comparison code does not depend on it).
DigestBytes == 2
\* Largest number of non-hash pairs in a generated token.
MaxData == 2
\* Largest number of rows the table holds (inserts beyond it are not taken).
MaxRows == 2
\* Number of values `${Date.now()}-${random}` can take in a generated path.
NumStamps == 2
\* Largest number of requests one behaviour handles.
MaxBegun == 3
\* Largest length of a generated file name.
MaxName == 3

(***************************************************************************)
(* Characters and strings.                                                 *)
(***************************************************************************)
\* The model's alphabet in ascending UTF-16 code-unit order (the order that
\* Array.prototype.sort uses for strings).
Chars ==
  << "\n", " ", "\"", "&", "+", ".",
     "0", "1", "2", "3", "4", "5", "6", "7", "8", "9", ":", "=",
     "A", "B", "C", "D", "E", "F", "W",
     "a", "b", "c", "d", "e", "f", "g", "h", "i", "l", "n", "p", "r", "s", "t", "u",
     "{", "}" >>

Ord(c) == CHOOSE i \in 1..Len(Chars) : Chars[i] = c

Min(a, b) == IF a < b THEN a ELSE b

\* s < t as JavaScript compares strings: by code unit from the first index
\* where they differ, a proper prefix first.
RECURSIVE LessFrom(_, _, _)
LessFrom(s, t, i) ==
  IF i > Len(t) THEN FALSE
  ELSE IF i > Len(s) THEN TRUE
  ELSE IF s[i] = t[i] THEN LessFrom(s, t, i + 1)
  ELSE Ord(s[i]) < Ord(t[i])

StrLess(s, t) == LessFrom(s, t, 1)

\* First index of character c in s, or 0.
IndexOf(s, c) ==
  IF \E i \in 1..Len(s) : s[i] = c
    THEN CHOOSE i \in 1..Len(s) : s[i] = c /\ \A j \in 1..(i - 1) : s[j] # c
    ELSE 0

\* String.prototype.split on a one-character separator.
RECURSIVE Split(_, _)
Split(s, sep) ==
  LET i == IndexOf(s, sep)
  IN IF i = 0 THEN << s >>
     ELSE << SubSeq(s, 1, i - 1) >> \o Split(SubSeq(s, i + 1, Len(s)), sep)

\* Array.prototype.join.
RECURSIVE Join(_, _)
Join(strs, sep) ==
  IF Len(strs) = 0 THEN << >>
  ELSE IF Len(strs) = 1 THEN strs[1]
  ELSE strs[1] \o sep \o Join(Tail(strs), sep)

\* Array.prototype.sort with the default comparator, on an array of strings.
RECURSIVE InsertSorted(_, _)
InsertSorted(x, sorted) ==
  IF Len(sorted) = 0 THEN << x >>
  ELSE IF StrLess(x, Head(sorted)) THEN << x >> \o sorted
  ELSE << Head(sorted) >> \o InsertSorted(x, Tail(sorted))

RECURSIVE SortStrings(_)
SortStrings(strs) ==
  IF Len(strs) = 0 THEN << >>
  ELSE InsertSorted(Head(strs), SortStrings(Tail(strs)))

(***************************************************************************)
(* URLSearchParams.                                                        *)
(***************************************************************************)
\* application/x-www-form-urlencoded decoding of one name or value: '+' is a
\* space.  (The alphabet has no '%', so percent-decoding changes nothing.)
FormDecode(s) == [i \in 1..Len(s) |-> IF s[i] = "+" THEN " " ELSE s[i]]

\* One "name=value" segment: split at the first '=', value empty without one.
ParsePair(seg) ==
  LET i == IndexOf(seg, "=")
  IN IF i = 0 THEN [key |-> FormDecode(seg), value |-> << >>]
     ELSE [key   |-> FormDecode(SubSeq(seg, 1, i - 1)),
           value |-> FormDecode(SubSeq(seg, i + 1, Len(seg)))]

RECURSIVE ParseSegments(_)
ParseSegments(segs) ==
  IF Len(segs) = 0 THEN << >>
  ELSE IF Len(Head(segs)) = 0 THEN ParseSegments(Tail(segs))
  ELSE << ParsePair(Head(segs)) >> \o ParseSegments(Tail(segs))

\* new URLSearchParams(initData): the ordered list of pairs; empty segments
\* between '&' are skipped.  Never throws.
URLSearchParams(initData) == ParseSegments(Split(initData, "&"))

\* A missing JavaScript value (null / undefined).
Null == [type |-> "null"]
Str(s) == [type |-> "string", chars |-> s]

\* params.get(name): the value of the first pair called name, or null.
ParamsGet(params, name) ==
  IF \E i \in 1..Len(params) : params[i].key = name
    THEN LET i == CHOOSE k \in 1..Len(params) :
                    /\ params[k].key = name
                    /\ \A j \in 1..(k - 1) : params[j].key # name
         IN Str(params[i].value)
    ELSE Null

\* !v for a value that is null or a string.
FalsyStr(v) == v = Null \/ v.chars = << >>

(***************************************************************************)
(* Hex and HMAC-SHA256.                                                    *)
(***************************************************************************)
HexLower == << "0", "1", "2", "3", "4", "5", "6", "7", "8", "9",
               "a", "b", "c", "d", "e", "f" >>
HexUpper == << "0", "1", "2", "3", "4", "5", "6", "7", "8", "9",
               "A", "B", "C", "D", "E", "F" >>

\* The value of a hex digit of either case, -1 for any other character.
HexVal(c) ==
  IF \E i \in 1..16 : HexLower[i] = c THEN (CHOOSE i \in 1..16 : HexLower[i] = c) - 1
  ELSE IF \E i \in 1..16 : HexUpper[i] = c THEN (CHOOSE i \in 1..16 : HexUpper[i] = c) - 1
  ELSE -1

\* digest("hex"): two lowercase hex digits a byte.
HexEncode(bytes) ==
  [i \in 1..(2 * Len(bytes)) |->
     LET b == bytes[(i + 1) \div 2]
     IN IF i % 2 = 1 THEN HexLower[(b \div 16) + 1] ELSE HexLower[(b % 16) + 1]]

\* Buffer.from(s, "hex"): decodes pairs of hex digits of either case and stops
\* at the first pair that is not two hex digits; an odd last character is dropped.
HexDecode(s) ==
  LET n == Len(s) \div 2
      good(k) == HexVal(s[2 * k - 1]) >= 0 /\ HexVal(s[2 * k]) >= 0
      m == IF \A k \in 1..n : good(k) THEN n
           ELSE (CHOOSE k \in 1..n : ~good(k) /\ \A j \in 1..(k - 1) : good(j)) - 1
  IN [k \in 1..m |-> 16 * HexVal(s[2 * k - 1]) + HexVal(s[2 * k])]

RECURSIVE Pow(_, _)
Pow(b, e) == IF e = 0 THEN 1 ELSE b * Pow(b, e - 1)

\* Big-endian bytes of n, and back.
ToBytes(n) == [i \in 1..DigestBytes |-> (n \div Pow(256, DigestBytes - i)) % 256]

RECURSIVE FromBytes(_)
FromBytes(bytes) ==
  IF Len(bytes) = 0 THEN 0
  ELSE 256 * FromBytes(SubSeq(bytes, 1, Len(bytes) - 1)) + bytes[Len(bytes)]

\* A bijection of 0 .. 256^DigestBytes - 1 (an odd multiplier), spreading
\* consecutive numbers over the digest's hex digits.
Mix(n) == (n * 2731 + 4011) % Pow(256, DigestBytes)

WebAppData == << "W", "e", "b", "A", "p", "p", "D", "a", "t", "a" >>

\* Bot tokens the environment may be configured with (TELEGRAM_BOT_TOKEN).
Secrets == { << "b", "1" >>, << "b", "2" >> }

\* Number of members of S that sort before x.
Rank(x, S) == Cardinality({ y \in S : StrLess(y, x) })

(***************************************************************************)
(* The non-hash pairs the model's tokens are made of.                      *)
(***************************************************************************)
Pair(k, v) == [key |-> k, value |-> v]
K_hash == << "h", "a", "s", "h" >>
K_user == << "u", "s", "e", "r" >>
UserJson(idText) == << "{", "\"", "i", "d", "\"", ":" >> \o idText \o << "}" >>

P_a1 == Pair(<< "a" >>, << "1" >>)
P_b2 == Pair(<< "b" >>, << "2" >>)
P_user(idText) == Pair(K_user, UserJson(idText))

\* Pairs of the tokens the verifier is run on by itself.
DataPairs ==
  { P_a1, P_b2,
    P_user(<< "1" >>),
    P_user(<< "1", ".", "5" >>),
    P_user(<< "\"", "1", "\"" >>),
    Pair(K_user, << "{" >>),
    Pair(K_user, << >>) }

\* Every list of at most MaxData of them.
DataLists == UNION { [1..n -> DataPairs] : n \in 0..MaxData }

\* The pair lists of the tokens that requests carry: a user with id 1, 2 or
\* 0, and no user.
RequestLists ==
  { << P_user(<< "1" >>), P_a1 >>, << P_user(<< "2" >>), P_a1 >>,
    << P_user(<< "0" >>), P_a1 >>, << P_a1 >> }

\* lines 20-26: "key=value" of every pair but hash, sorted, joined by newlines.
RECURSIVE CheckPairs(_)
CheckPairs(params) ==
  IF Len(params) = 0 THEN << >>
  ELSE IF Head(params).key = K_hash THEN CheckPairs(Tail(params))
  ELSE << Head(params).key \o << "=" >> \o Head(params).value >>
         \o CheckPairs(Tail(params))

\* The pairs joined in the order the init data lists them.
DataCheckStringUnsorted(params) == Join(CheckPairs(params), << "\n" >>)

DataCheckString(params) == Join(SortStrings(CheckPairs(params)), << "\n" >>)

\* Every check string a token of the model can have.
Messages == { DataCheckString(dl) : dl \in DataLists \cup RequestLists }

\* The place of each of them when they are put in ascending order.
MessagePlace ==
  [m \in Messages |-> 1 + Cardinality({ x \in Messages : StrLess(x, m) })]

\* The place of a check string in that order (0 for any other string).
MessageIndex(msg) == IF msg \in DOMAIN MessagePlace THEN MessagePlace[msg] ELSE 0

\* crypto.createHmac("sha256", key).update(msg).digest(): HMAC-SHA256 is taken
\* as an injective function on the model's inputs, which are ("WebAppData", bot
\* token) on line 29 and (a key derived that way, check string) on line 30.
\* A secret key that is the same for every bot token.
HmacWebAppDataFixed(botToken) == ToBytes(Mix(0))

\* line 29: the secret key derived from the bot token.
HmacWebAppData(botToken) == ToBytes(Mix(Rank(botToken, Secrets)))

KeyRank(key) ==
  Cardinality({ s \in Secrets : FromBytes(HmacWebAppData(s)) < FromBytes(key) })

\* line 30: the digest of the check string under the derived key.
HmacSha256(key, msg) ==
  ToBytes(Mix(Cardinality(Secrets)
              + KeyRank(key) * (Cardinality(Messages) + 1)
              + MessageIndex(msg)))

(***************************************************************************)
(* JSON.parse, on the texts the model's user fields hold: null, a number,  *)
(* a string, {} and {"id":<null, number or string>}.  Every other text of  *)
(* the model is not JSON and raises SyntaxError.                           *)
(***************************************************************************)
Digits == { "0", "1", "2", "3", "4", "5", "6", "7", "8", "9" }
DigitVal(c) == Ord(c) - Ord("0")

IsDigits(s) == Len(s) > 0 /\ \A i \in 1..Len(s) : s[i] \in Digits
\* A JSON integer literal has no leading zero.
IsIntLit(s) == IsDigits(s) /\ (Len(s) = 1 \/ s[1] # "0")
IsNumLit(s) ==
  LET dot == IndexOf(s, ".")
  IN IF dot = 0 THEN IsIntLit(s)
     ELSE IsIntLit(SubSeq(s, 1, dot - 1)) /\ IsDigits(SubSeq(s, dot + 1, Len(s)))
IsStrLit(s) ==
  /\ Len(s) >= 2
  /\ s[1] = "\"" /\ s[Len(s)] = "\""
  /\ \A i \in 2..(Len(s) - 1) : s[i] # "\""

RECURSIVE IntVal(_)
IntVal(s) ==
  IF Len(s) = 0 THEN 0
  ELSE 10 * IntVal(SubSeq(s, 1, Len(s) - 1)) + DigitVal(s[Len(s)])

RECURSIVE StripZeros(_)
StripZeros(s) ==
  IF Len(s) > 0 /\ s[Len(s)] = "0" THEN StripZeros(SubSeq(s, 1, Len(s) - 1)) ELSE s

\* A JavaScript number: its integer part and its fraction digits (none for
\* an integer; 1.0 is the integer 1).
Num(i, f) == [type |-> "number", int |-> i, frac |-> f]
IntNum(i) == Num(i, << >>)
NumVal(s) ==
  LET dot == IndexOf(s, ".")
  IN IF dot = 0 THEN IntNum(IntVal(s))
     ELSE Num(IntVal(SubSeq(s, 1, dot - 1)), StripZeros(SubSeq(s, dot + 1, Len(s))))

N_null == << "n", "u", "l", "l" >>
IsScalar(s) == s = N_null \/ IsNumLit(s) \/ IsStrLit(s)
ScalarVal(s) ==
  IF s = N_null THEN Null
  ELSE IF IsNumLit(s) THEN NumVal(s)
  ELSE Str(SubSeq(s, 2, Len(s) - 1))

IdPrefix == << "{", "\"", "i", "d", "\"", ":" >>
IsIdObject(s) ==
  /\ Len(s) > Len(IdPrefix) + 1
  /\ SubSeq(s, 1, Len(IdPrefix)) = IdPrefix
  /\ s[Len(s)] = "}"
  /\ IsScalar(SubSeq(s, Len(IdPrefix) + 1, Len(s) - 1))

\* An object: its id property, Null when it has none (undefined).
Obj(id) == [type |-> "object", id |-> id]

JsonParse(s) ==
  IF IsScalar(s) THEN [threw |-> FALSE, value |-> ScalarVal(s)]
  ELSE IF s = << "{", "}" >> THEN [threw |-> FALSE, value |-> Obj(Null)]
  ELSE IF IsIdObject(s)
    THEN [threw |-> FALSE,
          value |-> Obj(ScalarVal(SubSeq(s, Len(IdPrefix) + 1, Len(s) - 1)))]
  ELSE [threw |-> TRUE]

\* parsedUser?.id
OptionalId(v) == IF v.type = "object" THEN v.id ELSE Null

(***************************************************************************)
(* validateTelegramInitData                                                *)
(***************************************************************************)
Result(valid, userId) == [valid |-> valid, userId |-> userId]
Thrown == [threw |-> TRUE]
Returned(r) == [threw |-> FALSE, ret |-> r]

\* crypto.timingSafeEqual: RangeError when the byte lengths differ.
TimingSafeEqual(a, b) ==
  IF Len(a) # Len(b) THEN [threw |-> TRUE]
  ELSE [threw |-> FALSE, value |-> (a = b)]

\* The user field never read: every token that matches is without a user.
UserIdOfNone(params) == Returned(Result(TRUE, Null))

\* The user field read without the try block and the typeof check: a field
\* that does not parse is no user, and any id is returned.
UserIdOfUnchecked(params) ==
  LET userParam == ParamsGet(params, K_user)
  IN IF FalsyStr(userParam) THEN Returned(Result(TRUE, Null))
     ELSE LET parsed == JsonParse(userParam.chars)
          IN IF parsed.threw THEN Returned(Result(TRUE, Null))
             ELSE Returned(Result(TRUE, OptionalId(parsed.value)))

\* lines 38-43: the identity of a token whose signature matched.
UserIdOf(params) ==
  LET userParam == ParamsGet(params, K_user)
  IN IF FalsyStr(userParam) THEN Returned(Result(TRUE, Null))
     ELSE LET parsed == JsonParse(userParam.chars)
          IN IF parsed.threw THEN Thrown
             ELSE LET id == OptionalId(parsed.value)
                  IN Returned(Result(TRUE, IF id.type = "number" THEN id ELSE Null))

\* lines 28-30: the signature the verifier computes.
Computed(params, botToken) ==
  HexEncode(HmacSha256(HmacWebAppData(botToken), DataCheckString(params)))

\* lines 16-43: the body of the try block.
TryValidate(initData, botToken) ==
  LET params == URLSearchParams(initData)
      hash   == ParamsGet(params, K_hash)
  IN IF FalsyStr(hash) THEN Returned(Result(FALSE, Null))
     ELSE LET computed == Computed(params, botToken)
          IN IF Len(computed) # Len(hash.chars) THEN Returned(Result(FALSE, Null))
             ELSE LET eq == TimingSafeEqual(HexDecode(computed), HexDecode(hash.chars))
                  IN IF eq.threw THEN Thrown
                     ELSE IF ~eq.value THEN Returned(Result(FALSE, Null))
                     ELSE UserIdOf(params)

\* The body without the catch block.
validateUncaught(initData, botToken) == TryValidate(initData, botToken)

\* lines 14-48: what the function returns; an exception of the body is caught
\* (lines 44-47).
validateTelegramInitData(initData, botToken) ==
  LET body == TryValidate(initData, botToken)
  IN IF body.threw THEN Returned(Result(FALSE, Null)) ELSE body

(***************************************************************************)
(* Tokens: how the init data handed to the verifier is written.            *)
(***************************************************************************)
FormEncode(s) == [i \in 1..Len(s) |-> IF s[i] = " " THEN "+" ELSE s[i]]

\* The query string of a list of pairs.
Serialize(params) ==
  Join([i \in 1..Len(params) |->
          FormEncode(params[i].key) \o << "=" >> \o FormEncode(params[i].value)],
       << "&" >>)

\* The strings of p in ascending order: the string at place k is the one with
\* k - 1 strings before it.
Ascending(p) ==
  LET before(i) == Cardinality({ j \in 1..Len(p) :
                                   StrLess(p[j], p[i]) \/ (p[j] = p[i] /\ j < i) })
  IN [k \in 1..Len(p) |-> p[CHOOSE i \in 1..Len(p) : before(i) = k - 1]]

\* The check string of section 4.1, step 3.
CheckStringOf(params) ==
  LET rest == SelectSeq(params, LAMBDA q : q.key # K_hash)
  IN Join(Ascending([i \in 1..Len(rest) |-> rest[i].key \o << "=" >> \o rest[i].value]),
          << "\n" >>)

\* The signature of section 4.1, step 4.
SignatureOf(params, secret) ==
  HexEncode(HmacSha256(HmacWebAppData(secret), CheckStringOf(params)))

\* The hash field Telegram gives the pairs dl for the bot whose token is signer.
Sign(dl, signer) == SignatureOf(dl, signer)

HashKinds == { "signed", "unsigned", "empty", "short", "double" }

Zeros == [i \in 1..(2 * DigestBytes) |-> "0"]

\* The pairs dl with a hash field of the given kind after them.
WithHash(dl, signer, kind) ==
  LET sig == Sign(dl, signer)
  IN CASE kind = "signed"   -> dl \o << Pair(K_hash, sig) >>
       [] kind = "unsigned" -> dl
       [] kind = "empty"    -> dl \o << Pair(K_hash, << >>) >>
       [] kind = "short"    -> dl \o << Pair(K_hash, SubSeq(sig, 1, Len(sig) - 1)) >>
       [] kind = "double"   -> dl \o << Pair(K_hash, sig), Pair(K_hash, Zeros) >>

\* Init data that is not a list of name=value pairs.
RawStrings ==
  { << >>, << "&", "&" >>, << "=" >>, K_hash, << "a", "+", "=", "+", "&" >> \o K_hash,
    << "=", "=", "&", "=" >> }

(***************************************************************************)
(* What requests carry.                                                    *)
(***************************************************************************)
B1 == << "b", "1" >>
B2 == << "b", "2" >>

\* Init data signed by Telegram for the bot B1, and one signed for B2.
TokenUser1  == Serialize(WithHash(<< P_user(<< "1" >>), P_a1 >>, B1, "signed"))
TokenUser2  == Serialize(WithHash(<< P_user(<< "2" >>), P_a1 >>, B1, "signed"))
TokenUser0  == Serialize(WithHash(<< P_user(<< "0" >>), P_a1 >>, B1, "signed"))
TokenNoUser == Serialize(WithHash(<< P_a1 >>, B1, "signed"))
TokenForged == Serialize(WithHash(<< P_user(<< "1" >>), P_a1 >>, B2, "signed"))

\* formData.get("initData")?.toString(): undefined or a string.
InitDataChoices ==
  { Null, Str(TokenUser1), Str(TokenUser2), Str(TokenUser0), Str(TokenNoUser),
    Str(TokenForged) }

\* process.env.TELEGRAM_BOT_TOKEN: unset (the empty string here) or B1.
BotTokenChoices == { << >>, B1 }

Form(f, l, u, p) == [firstName |-> f, lastName |-> l, university |-> u, program |-> p]
FormA == Form(Str(<< "A" >>), Str(<< "L" >>), Str(<< "U" >>), Str(<< "m", "a", "s", "t", "e", "r", "s" >>))
FormB == Form(Str(<< "B" >>), Str(<< "L" >>), Str(<< "V" >>), Str(<< "d", "i", "p", "l", "o", "m", "a" >>))
FormEmptyName == Form(Str(<< "A" >>), Str(<< >>), Str(<< "U" >>), Str(<< "p", "h", "d" >>))
FormNoProgram == Form(Str(<< "A" >>), Str(<< "L" >>), Str(<< "U" >>), Null)
FormChoices == { FormA, FormB, FormEmptyName, FormNoProgram }

\* formData.get("document"): a File, or nothing.
File(name, size) == [type |-> "file", name |-> name, size |-> size]
FileZip   == File(<< "r", " ", "1", ".", "z" >>, 1)
FileEmpty == File(<< "r", " ", "1", ".", "z" >>, 0)
DocumentChoices == { Null, FileZip, FileEmpty }
IsFile(d) == d.type = "file"

\* !v for a value that is null or a number.
FalsyNum(v) == v = Null \/ v = IntNum(0)

\* name.replace(/[^a-zA-Z0-9.-]/g, "_")
SafeChars ==
  { "a", "b", "c", "d", "e", "f", "g", "h", "i", "j", "k", "l", "m", "n", "o", "p", "q",
    "r", "s", "t", "u", "v", "w", "x", "y", "z",
    "A", "B", "C", "D", "E", "F", "G", "H", "I", "J", "K", "L", "M", "N", "O", "P", "Q",
    "R", "S", "T", "U", "V", "W", "X", "Y", "Z",
    "0", "1", "2", "3", "4", "5", "6", "7", "8", "9", ".", "-" }
\* Making a name safe by leaving the other characters out.
SafeFileNameDropping(name) ==
  LET safe(c) == c \in SafeChars IN SelectSeq(name, safe)

SafeFileName(name) ==
  [i \in 1..Len(name) |-> IF name[i] \in SafeChars THEN name[i] ELSE "_"]

\* `documents/${Date.now()}-${Math.random().toString(36).slice(2, 8)}-${safeFileName}`
FilePath(stamp, name) == [stamp |-> stamp, name |-> SafeFileName(name)]

\* No value yet: the call has not returned.
NoResult == [pending |-> TRUE]

Response(status, message) == [status |-> status, message |-> message]
NoResponse == [pending |-> TRUE]

Requests == { 1, 2 }

\* A request slot nobody is using.
Idle ==
  [ method |-> "idle", pc |-> "idle",
    initData |-> Null, form |-> FormA, document |-> Null,
    verdict |-> NoResult, userId |-> Null,
    docPath |-> Null, uploadPath |-> Null, error |-> "",
    response |-> NoResponse, body |-> Null, calls |-> << >>, after |-> {} ]

(***************************************************************************)
(* State.                                                                  *)
(***************************************************************************)
VARIABLES
  vInitData,   \* the init data of a verifier call
  vBotToken,   \* the bot token of that call
  vResult,     \* what the call returned, NoResult before it has run
  variant,     \* how the second call's arguments were made from the first's
  wInitData,   \* the init data of the second call
  wBotToken,   \* the bot token of the second call
  wResult,     \* what the second call returned
  TELEGRAM_BOT_TOKEN,    \* process.env.TELEGRAM_BOT_TOKEN
  uniqueConstraint,      \* the table has a unique index on telegram_chat_id
  document_submissions,  \* the table's rows, in insertion order
  shartnoma_zip,         \* the bucket's objects
  req,                   \* the requests being handled
  begun,                 \* how many requests have arrived
  overlap,               \* two POSTs of one identity have been in progress together
  documentName,          \* document.name of a file whose name is made safe
  safeFileName           \* [value |-> the safe name], NoResult before it is computed

verifierVars == << vInitData, vBotToken, vResult, variant, wInitData, wBotToken, wResult >>
routeVars ==
  << TELEGRAM_BOT_TOKEN, uniqueConstraint, document_submissions, shartnoma_zip, req,
     begun, overlap >>
nameVars == << documentName, safeFileName >>
vars == << verifierVars, routeVars, nameVars >>

(***************************************************************************)
(* The making of a safe file name by itself.                               *)
(***************************************************************************)
\* Characters of the generated names: a letter of each case, a digit, the
\* dot and the hyphen, and a space, an underscore, a slash and a backslash.
NameChars == { "a", "Z", "7", ".", "-", " ", "_", "/", "\\" }

\* File names of at most MaxName of them, and one long name.
LongName ==
  << "M", "y", " ", "R", "e", "p", "o", "r", "t", " ", "(", "v", "2", ")", "!",
     ".", "z", "i", "p" >>
Names == UNION { [1..n -> NameChars] : n \in 0..MaxName } \cup { LongName }

NameInit ==
  /\ documentName \in Names
  /\ safeFileName = NoResult
  /\ vInitData = << >>
  /\ vBotToken = << >>
  /\ vResult = NoResult
  /\ variant = "none"
  /\ wInitData = << >>
  /\ wBotToken = << >>
  /\ wResult = NoResult
  /\ TELEGRAM_BOT_TOKEN = << >>
  /\ uniqueConstraint = FALSE
  /\ document_submissions = << >>
  /\ shartnoma_zip = {}
  /\ req = [r \in Requests |-> Idle]
  /\ begun = 0
  /\ overlap = FALSE

\* lines 141, 218: document.name.replace(/[^a-zA-Z0-9.-]/g, "_")
MakeSafe ==
  /\ safeFileName = NoResult
  /\ safeFileName' = [value |-> SafeFileName(documentName)]
  /\ UNCHANGED << documentName, verifierVars, routeVars >>

NameNext == MakeSafe

NameSpec == NameInit /\ [][NameNext]_vars

(***************************************************************************)
(* The verifier by itself: one call on a token, then a second call on a    *)
(* token or bot token derived from the first.                              *)
(***************************************************************************)
VerifierInit ==
  /\ \/ \E dl \in DataLists, signer \in Secrets, kind \in HashKinds :
          vInitData = Serialize(WithHash(dl, signer, kind))
     \/ vInitData \in RawStrings
  /\ vBotToken \in Secrets
  /\ vResult = NoResult
  /\ variant = "none"
  /\ wInitData = << >>
  /\ wBotToken = vBotToken
  /\ wResult = NoResult
  /\ TELEGRAM_BOT_TOKEN = << >>
  /\ uniqueConstraint = FALSE
  /\ document_submissions = << >>
  /\ shartnoma_zip = {}
  /\ req = [r \in Requests |-> Idle]
  /\ begun = 0
  /\ overlap = FALSE
  /\ documentName = << >>
  /\ safeFileName = NoResult

\* validateTelegramInitData(initData, botToken)
Verify ==
  /\ vResult = NoResult
  /\ vResult' = validateTelegramInitData(vInitData, vBotToken)
  /\ UNCHANGED << vInitData, vBotToken, variant, wInitData, wBotToken, wResult, routeVars, nameVars >>

\* Where the value of the first hash field lies in the init data: the
\* position before its first character, and its length.
HashSpan(initData) ==
  LET isStart(i) ==
        /\ i + Len(K_hash) <= Len(initData)
        /\ SubSeq(initData, i, i + Len(K_hash)) = K_hash \o << "=" >>
        /\ (i = 1 \/ initData[i - 1] = "&")
      starts == { i \in 1..Len(initData) : isStart(i) }
      first == CHOOSE i \in starts : \A j \in starts : i <= j
      from == first + Len(K_hash)
      rest == SubSeq(initData, from + 1, Len(initData))
      stop == IndexOf(rest, "&")
  IN IF starts = {} THEN [from |-> 0, len |-> 0]
     ELSE [from |-> from, len |-> IF stop = 0 THEN Len(rest) ELSE stop - 1]

\* The characters a character of the hash field is replaced by: other hex
\* digits, hex letters in upper case, and characters that are no hex digits.
FlipChars ==
  { "0", "1", "A", "B", "C", "D", "E", "F", "g", "=", "+", "." }

\* The second call: validateTelegramInitData(initData, botToken)
Second(initData, botToken) ==
  /\ wInitData' = initData
  /\ wBotToken' = botToken
  /\ wResult' = validateTelegramInitData(initData, botToken)

\* The second call is on the first token with one character of its hash
\* field replaced.
FlipHashChar ==
  /\ vResult # NoResult /\ ~vResult.threw /\ vResult.ret.valid
  /\ variant = "none"
  /\ LET span == HashSpan(vInitData)
     IN \E i \in 1..span.len, c \in FlipChars :
          /\ c # vInitData[span.from + i]
          /\ Second([vInitData EXCEPT ![span.from + i] = c], vBotToken)
  /\ variant' = "flip"
  /\ UNCHANGED << vInitData, vBotToken, vResult, routeVars, nameVars >>

Swap(seq, i, j) == [seq EXCEPT ![i] = seq[j], ![j] = seq[i]]

\* The second call is on the first token with two of its pairs exchanged.
PermutePairs ==
  /\ vResult # NoResult
  /\ variant = "none"
  /\ LET params == URLSearchParams(vInitData)
     IN \E i, j \in 1..Len(params) :
          /\ i < j
          /\ params[i] # params[j]
          /\ Second(Serialize(Swap(params, i, j)), vBotToken)
  /\ variant' = "permute"
  /\ UNCHANGED << vInitData, vBotToken, vResult, routeVars, nameVars >>

\* The second call is on the same token under another bot token.
ChangeSecret ==
  /\ vResult # NoResult /\ ~vResult.threw /\ vResult.ret.valid
  /\ variant = "none"
  /\ \E s \in Secrets : s # vBotToken /\ Second(vInitData, s)
  /\ variant' = "secret"
  /\ UNCHANGED << vInitData, vBotToken, vResult, routeVars, nameVars >>

VerifierNext == Verify \/ FlipHashChar \/ PermutePairs \/ ChangeSecret

VerifierSpec == VerifierInit /\ [][VerifierNext]_vars

\* validateTelegramInitData on what requests carry, computed once.
Verdicts ==
  { [ initData |-> t.chars, botToken |-> b,
      result |-> validateTelegramInitData(t.chars, b).ret ] :
      t \in InitDataChoices \ { Null }, b \in BotTokenChoices \ { << >> } }

\* const { valid, userId } = validateTelegramInitData(initData, botToken)
Verified(initData, botToken) ==
  (CHOOSE v \in Verdicts : v.initData = initData /\ v.botToken = botToken).result

(***************************************************************************)
(* The route: requests handled concurrently against the table and the      *)
(* bucket.  An action is the handler's code from one await to the next,    *)
(* with the store's call that ends it.                                     *)
(***************************************************************************)
Init ==
  /\ TELEGRAM_BOT_TOKEN \in BotTokenChoices
  /\ uniqueConstraint \in BOOLEAN
  /\ document_submissions = << >>
  /\ shartnoma_zip = {}
  /\ req = [r \in Requests |-> Idle]
  /\ begun = 0
  /\ overlap = FALSE
  /\ documentName = << >>
  /\ safeFileName = NoResult
  /\ vInitData = << >>
  /\ vBotToken = << >>
  /\ vResult = NoResult
  /\ variant = "none"
  /\ wInitData = << >>
  /\ wBotToken = << >>
  /\ wResult = NoResult

\* A request can arrive in slot r; the second slot is taken only while the
\* first is in use.
Free(r) ==
  /\ begun < MaxBegun
  /\ req[r].method = "idle"
  /\ r = 1 \/ req[1].method # "idle"

\* A request that has just arrived.
Arrived(method, initData, form, document) ==
  [Idle EXCEPT !.method = method, !.initData = initData, !.form = form,
               !.document = document,
               !.after = { o \in Requests : req[o].pc = "done" }]

Respond(q, status, message) ==
  [q EXCEPT !.pc = "done", !.response = Response(status, message)]

Called(q, op) == [q EXCEPT !.calls = Append(q.calls, op)]

MissingForm(form) ==
  \/ FalsyStr(form.firstName)
  \/ FalsyStr(form.lastName)
  \/ FalsyStr(form.university)
  \/ FalsyStr(form.program)

\* .eq("telegram_chat_id", userId): the indexes of the matching rows.
Matching(userId) ==
  { i \in 1..Len(document_submissions) :
      document_submissions[i].telegram_chat_id = userId }

InProgress(q) == q.method # "idle" /\ q.pc # "done"

(***************************************************************************)
(* POST                                                                    *)
(***************************************************************************)
\* POST without the duplicate check: a verified request goes on to the upload.
PostVerifiedNoLookup(q, v) ==
  IF ~v.valid
    THEN Respond([q EXCEPT !.verdict = v], 401, "Telegram ma'lumotlari tasdiqlanmadi")
  ELSE IF FalsyNum(v.userId)
    THEN Respond([q EXCEPT !.verdict = v], 400, "Telegram foydalanuvchisi aniqlanmadi")
  ELSE [q EXCEPT !.verdict = v, !.userId = v.userId, !.pc = "upload"]

\* POST going on without a user when the verifier found none.
PostVerifiedAnonymous(q, v) ==
  IF ~v.valid
    THEN Respond([q EXCEPT !.verdict = v], 401, "Telegram ma'lumotlari tasdiqlanmadi")
  ELSE IF FalsyNum(v.userId)
    THEN [q EXCEPT !.verdict = v, !.pc = "upload"]
  ELSE [q EXCEPT !.verdict = v, !.userId = v.userId, !.pc = "select"]

\* lines 116-122: what POST does with the verifier's result v.
PostVerified(q, v) ==
  IF ~v.valid
    THEN Respond([q EXCEPT !.verdict = v], 401, "Telegram ma'lumotlari tasdiqlanmadi")
  ELSE IF FalsyNum(v.userId)
    THEN Respond([q EXCEPT !.verdict = v], 400, "Telegram foydalanuvchisi aniqlanmadi")
  ELSE [q EXCEPT !.verdict = v, !.userId = v.userId, !.pc = "select"]

\* POST looking for an earlier row of the sender even when it has no identity.
PostCheckedLookup(q) ==
  IF MissingForm(q.form) \/ ~IsFile(q.document)
    THEN Respond(q, 400, "Missing required fields")
  ELSE IF ~FalsyStr(q.initData) /\ TELEGRAM_BOT_TOKEN # << >>
    THEN PostVerified(q, Verified(q.initData.chars, TELEGRAM_BOT_TOKEN))
  ELSE [q EXCEPT !.pc = "select"]

\* lines 99-122: the form is read and checked and the init data verified.
PostChecked(q) ==
  IF MissingForm(q.form) \/ ~IsFile(q.document)
    THEN Respond(q, 400, "Missing required fields")
  ELSE IF ~FalsyStr(q.initData) /\ TELEGRAM_BOT_TOKEN # << >>
    THEN PostVerified(q, Verified(q.initData.chars, TELEGRAM_BOT_TOKEN))
  ELSE [q EXCEPT !.pc = "upload"]

\* A POST in slot r has got as far as q.
PostBegun(r, q) ==
  /\ req' = [req EXCEPT ![r] = q]
  /\ overlap' =
       (overlap \/ (/\ q.pc = "select"
                    /\ \E o \in Requests \ {r} :
                         /\ req[o].method = "POST"
                         /\ InProgress(req[o])
                         /\ req[o].userId = q.userId))

PostBegin(r, initDatas, forms, documents) ==
  /\ Free(r)
  /\ begun' = begun + 1
  /\ \E initData \in initDatas, form \in forms, document \in documents :
       PostBegun(r, PostChecked(Arrived("POST", initData, form, document)))
  /\ UNCHANGED << TELEGRAM_BOT_TOKEN, uniqueConstraint, document_submissions,
                  shartnoma_zip, verifierVars, nameVars >>

\* The duplicate check answering nothing to a row that exists.
PostSelectedBlind(q, selectError, existing) ==
  IF selectError THEN Respond(q, 500, "Tekshirishda xatolik")
  ELSE [q EXCEPT !.pc = "upload"]

\* lines 124-138: the duplicate check.
PostSelected(q, selectError, existing) ==
  IF selectError THEN Respond(q, 500, "Tekshirishda xatolik")
  ELSE IF existing # {} THEN Respond(q, 409, "Siz allaqachon topshirdingiz")
  ELSE [q EXCEPT !.pc = "upload"]

PostSelect(r) ==
  /\ req[r].method = "POST" /\ req[r].pc = "select"
  /\ \E selectError \in BOOLEAN :
       req' = [req EXCEPT ![r] =
                 PostSelected(Called(req[r], "select"), selectError,
                              Matching(req[r].userId))]
  /\ UNCHANGED << TELEGRAM_BOT_TOKEN, uniqueConstraint, document_submissions,
                  shartnoma_zip, overlap, begun, verifierVars, nameVars >>

Occupied(path) == \E o \in shartnoma_zip : o.path = path

\* An upload that is made again when it fails.
UploadRetrying(r, next, failure) ==
  \E stamp \in 1..NumStamps, uploadError \in BOOLEAN :
    LET q == Called(req[r], "upload")
        filePath == FilePath(stamp, q.document.name)
    IN IF uploadError \/ Occupied(filePath)
         THEN /\ req' = [req EXCEPT ![r] =
                           IF Len(q.calls) < 4 THEN q ELSE Respond(q, 500, failure)]
              /\ UNCHANGED shartnoma_zip
         ELSE /\ shartnoma_zip' =
                   shartnoma_zip \cup { [path |-> filePath, file |-> q.document] }
              /\ req' = [req EXCEPT ![r] =
                           [q EXCEPT !.uploadPath = filePath, !.docPath = filePath,
                                     !.pc = next]]

\* An upload whose failure is not looked at: the request goes on without a
\* path.
UploadUnchecked(r, next, failure) ==
  \E stamp \in 1..NumStamps, uploadError \in BOOLEAN :
    LET q == Called(req[r], "upload")
        filePath == FilePath(stamp, q.document.name)
    IN IF uploadError \/ Occupied(filePath)
         THEN /\ req' = [req EXCEPT ![r] = [q EXCEPT !.pc = next]]
              /\ UNCHANGED shartnoma_zip
         ELSE /\ shartnoma_zip' =
                   shartnoma_zip \cup { [path |-> filePath, file |-> q.document] }
              /\ req' = [req EXCEPT ![r] =
                           [q EXCEPT !.uploadPath = filePath, !.docPath = filePath,
                                     !.pc = next]]

\* storage.upload(filePath, document, {upsert: true}): the object at an
\* occupied path is replaced.
UploadUpsert(r, next, failure) ==
  \E stamp \in 1..NumStamps, uploadError \in BOOLEAN :
    LET q == Called(req[r], "upload")
        filePath == FilePath(stamp, q.document.name)
    IN IF uploadError
         THEN /\ req' = [req EXCEPT ![r] = Respond(q, 500, failure)]
              /\ UNCHANGED shartnoma_zip
         ELSE /\ shartnoma_zip' =
                   { o \in shartnoma_zip : o.path # filePath }
                     \cup { [path |-> filePath, file |-> q.document] }
              /\ req' = [req EXCEPT ![r] =
                           [q EXCEPT !.uploadPath = filePath, !.docPath = filePath,
                                     !.pc = next]]

\* storage.upload(filePath, document, {upsert: false}): an occupied path is an
\* error; a free one is written unless the call fails.
Upload(r, next, failure) ==
  \E stamp \in 1..NumStamps, uploadError \in BOOLEAN :
    LET q == Called(req[r], "upload")
        filePath == FilePath(stamp, q.document.name)
    IN IF uploadError \/ Occupied(filePath)
         THEN /\ req' = [req EXCEPT ![r] = Respond(q, 500, failure)]
              /\ UNCHANGED shartnoma_zip
         ELSE /\ shartnoma_zip' =
                   shartnoma_zip \cup { [path |-> filePath, file |-> q.document] }
              /\ req' = [req EXCEPT ![r] =
                           [q EXCEPT !.uploadPath = filePath, !.docPath = filePath,
                                     !.pc = next]]

\* lines 141-154
PostUpload(r) ==
  /\ req[r].method = "POST" /\ req[r].pc = "upload"
  /\ Upload(r, "insert", "Failed to upload document")
  /\ UNCHANGED << TELEGRAM_BOT_TOKEN, uniqueConstraint, document_submissions,
                  overlap, begun, verifierVars, nameVars >>

Row(form, docPath, userId) ==
  [ first_name |-> form.firstName, last_name |-> form.lastName,
    university |-> form.university, program |-> form.program,
    doc_path |-> docPath, telegram_chat_id |-> userId ]

\* lines 165-170: what POST answers to the insert's outcome.
PostInserted(q, error) ==
  IF error # "" THEN Respond([q EXCEPT !.error = error], 500, "Failed to save submission")
  ELSE Respond(q, 200, "ok")

\* An insert that removes the uploaded object again when it fails.
PostInsertRollingBack(r) ==
  /\ req[r].method = "POST" /\ req[r].pc = "insert"
  /\ LET q == Called(req[r], "insert")
         row == Row(q.form, q.uploadPath, q.userId)
         kept == { o \in shartnoma_zip : o.path # q.uploadPath }
     IN IF uniqueConstraint /\ q.userId # Null /\ Matching(q.userId) # {}
          THEN /\ req' = [req EXCEPT ![r] = PostInserted(q, "23505")]
               /\ shartnoma_zip' = kept
               /\ UNCHANGED document_submissions
          ELSE \/ /\ req' = [req EXCEPT ![r] = PostInserted(q, "failed")]
                  /\ shartnoma_zip' = kept
                  /\ UNCHANGED document_submissions
               \/ /\ Len(document_submissions) < MaxRows
                  /\ document_submissions' = Append(document_submissions, row)
                  /\ req' = [req EXCEPT ![r] = PostInserted(q, "")]
                  /\ UNCHANGED shartnoma_zip
  /\ UNCHANGED << TELEGRAM_BOT_TOKEN, uniqueConstraint, overlap, begun, verifierVars, nameVars >>

\* lines 156-170: the insert.  A unique index refuses a second row of a
\* non-null telegram_chat_id (SQLSTATE 23505); any insert may fail otherwise.
PostInsert(r) ==
  /\ req[r].method = "POST" /\ req[r].pc = "insert"
  /\ LET q == Called(req[r], "insert")
         row == Row(q.form, q.uploadPath, q.userId)
     IN IF uniqueConstraint /\ q.userId # Null /\ Matching(q.userId) # {}
          THEN /\ req' = [req EXCEPT ![r] = PostInserted(q, "23505")]
               /\ UNCHANGED document_submissions
          ELSE \/ /\ req' = [req EXCEPT ![r] = PostInserted(q, "failed")]
                  /\ UNCHANGED document_submissions
               \/ /\ Len(document_submissions) < MaxRows
                  /\ document_submissions' = Append(document_submissions, row)
                  /\ req' = [req EXCEPT ![r] = PostInserted(q, "")]
  /\ UNCHANGED << TELEGRAM_BOT_TOKEN, uniqueConstraint, shartnoma_zip, overlap,
                  begun, verifierVars, nameVars >>

(***************************************************************************)
(* PUT                                                                     *)
(***************************************************************************)
\* PUT taking the verifier's user id without looking at its verdict.
PutVerifiedUnchecked(q, v) ==
  IF MissingForm(q.form)
    THEN Respond([q EXCEPT !.verdict = v], 400, "Majburiy maydonlar to'ldirilmagan")
  ELSE [q EXCEPT !.verdict = v, !.userId = v.userId, !.pc = "select"]

\* lines 186-198: what PUT does with the verifier's result v.
PutVerified(q, v) ==
  IF ~v.valid \/ FalsyNum(v.userId)
    THEN Respond([q EXCEPT !.verdict = v], 401, "Telegram ma'lumotlari tasdiqlanmadi")
  ELSE IF MissingForm(q.form)
    THEN Respond([q EXCEPT !.verdict = v], 400, "Majburiy maydonlar to'ldirilmagan")
  ELSE [q EXCEPT !.verdict = v, !.userId = v.userId, !.pc = "select"]

\* PUT verifying whatever it is given: a missing token or secret is handed to
\* the verifier's answer for a token that does not verify.
PutCheckedUnguarded(q) ==
  IF FalsyStr(q.initData) \/ TELEGRAM_BOT_TOKEN = << >>
    THEN PutVerified(q, [valid |-> FALSE, userId |-> Null])
  ELSE PutVerified(q, Verified(q.initData.chars, TELEGRAM_BOT_TOKEN))

\* lines 179-198
PutChecked(q) ==
  IF FalsyStr(q.initData) \/ TELEGRAM_BOT_TOKEN = << >>
    THEN Respond(q, 400, "Telegram ma'lumotlari kerak")
  ELSE PutVerified(q, Verified(q.initData.chars, TELEGRAM_BOT_TOKEN))

PutBegin(r, initDatas, forms, documents) ==
  /\ Free(r)
  /\ begun' = begun + 1
  /\ \E initData \in initDatas, form \in forms, document \in documents :
       req' = [req EXCEPT ![r] = PutChecked(Arrived("PUT", initData, form, document))]
  /\ UNCHANGED << TELEGRAM_BOT_TOKEN, uniqueConstraint, document_submissions,
                  shartnoma_zip, overlap, verifierVars, nameVars >>

\* PUT going on without a row: no 404, the document path starts as null.
PutSelectNoRow(r) ==
  /\ req[r].method = "PUT" /\ req[r].pc = "select"
  /\ LET q == Called(req[r], "select")
         existing == Matching(q.userId)
     IN \/ req' = [req EXCEPT ![r] = Respond(q, 500, "Tekshirishda xatolik")]
        \/ /\ existing = {}
           /\ req' = [req EXCEPT ![r] =
                        [q EXCEPT !.pc = IF IsFile(q.document) THEN "upload" ELSE "update"]]
        \/ \E i \in existing :
             req' = [req EXCEPT ![r] =
                       [q EXCEPT !.docPath = document_submissions[i].doc_path,
                                 !.pc = IF IsFile(q.document) THEN "upload" ELSE "update"]]
  /\ UNCHANGED << TELEGRAM_BOT_TOKEN, uniqueConstraint, document_submissions,
                  shartnoma_zip, overlap, begun, verifierVars, nameVars >>

\* PUT that does not take doc_path from the row it found: docPath stays null.
PutSelectForgetful(r) ==
  /\ req[r].method = "PUT" /\ req[r].pc = "select"
  /\ LET q == Called(req[r], "select")
         existing == Matching(q.userId)
     IN \/ req' = [req EXCEPT ![r] = Respond(q, 500, "Tekshirishda xatolik")]
        \/ /\ existing = {}
           /\ req' = [req EXCEPT ![r] = Respond(q, 404, "Topilmadi")]
        \/ /\ existing # {}
           /\ req' = [req EXCEPT ![r] =
                        [q EXCEPT !.pc = IF IsFile(q.document) THEN "upload" ELSE "update"]]
  /\ UNCHANGED << TELEGRAM_BOT_TOKEN, uniqueConstraint, document_submissions,
                  shartnoma_zip, overlap, begun, verifierVars, nameVars >>

\* lines 200-217: limit(1) gives any one of the matching rows.
PutSelect(r) ==
  /\ req[r].method = "PUT" /\ req[r].pc = "select"
  /\ LET q == Called(req[r], "select")
         existing == Matching(q.userId)
     IN \/ req' = [req EXCEPT ![r] = Respond(q, 500, "Tekshirishda xatolik")]
        \/ /\ existing = {}
           /\ req' = [req EXCEPT ![r] = Respond(q, 404, "Topilmadi")]
        \/ \E i \in existing :
             req' = [req EXCEPT ![r] =
                       [q EXCEPT !.docPath = document_submissions[i].doc_path,
                                 !.pc = IF IsFile(q.document) THEN "upload" ELSE "update"]]
  /\ UNCHANGED << TELEGRAM_BOT_TOKEN, uniqueConstraint, document_submissions,
                  shartnoma_zip, overlap, begun, verifierVars, nameVars >>

\* lines 217-232
PutUpload(r) ==
  /\ req[r].method = "PUT" /\ req[r].pc = "upload"
  /\ Upload(r, "update", "Faylni yuklashda xatolik")
  /\ UNCHANGED << TELEGRAM_BOT_TOKEN, uniqueConstraint, document_submissions,
                  overlap, begun, verifierVars, nameVars >>

\* An update that writes the form fields and leaves doc_path as it was.
UpdatedKeepingPath(row, form, docPath) ==
  [row EXCEPT !.first_name = form.firstName, !.last_name = form.lastName,
              !.university = form.university, !.program = form.program]

\* An update that also clears the row's telegram_chat_id.
UpdatedUnkeyed(row, form, docPath) ==
  [row EXCEPT !.first_name = form.firstName, !.last_name = form.lastName,
              !.university = form.university, !.program = form.program,
              !.doc_path = docPath, !.telegram_chat_id = Null]

\* The row as .update({...}) leaves it.
Updated(row, form, docPath) ==
  [row EXCEPT !.first_name = form.firstName, !.last_name = form.lastName,
              !.university = form.university, !.program = form.program,
              !.doc_path = docPath]

\* An update without .eq("telegram_chat_id", userId): every row is rewritten.
PutUpdateUnfiltered(r) ==
  /\ req[r].method = "PUT" /\ req[r].pc = "update"
  /\ LET q == Called(req[r], "update")
     IN \/ /\ req' = [req EXCEPT ![r] =
                        Respond([q EXCEPT !.error = "failed"], 500, "Yangilashda xatolik")]
           /\ UNCHANGED document_submissions
        \/ /\ document_submissions' =
                [i \in 1..Len(document_submissions) |->
                   Updated(document_submissions[i], q.form, q.docPath)]
           /\ req' = [req EXCEPT ![r] = Respond([q EXCEPT !.body = q.docPath], 200, "ok")]
  /\ UNCHANGED << TELEGRAM_BOT_TOKEN, uniqueConstraint, shartnoma_zip, overlap,
                  begun, verifierVars, nameVars >>

\* lines 234-250: every row of the identity is updated.
PutUpdate(r) ==
  /\ req[r].method = "PUT" /\ req[r].pc = "update"
  /\ LET q == Called(req[r], "update")
     IN \/ /\ req' = [req EXCEPT ![r] =
                        Respond([q EXCEPT !.error = "failed"], 500, "Yangilashda xatolik")]
           /\ UNCHANGED document_submissions
        \/ /\ document_submissions' =
                [i \in 1..Len(document_submissions) |->
                   IF i \in Matching(q.userId)
                     THEN Updated(document_submissions[i], q.form, q.docPath)
                     ELSE document_submissions[i]]
           /\ req' = [req EXCEPT ![r] = Respond([q EXCEPT !.body = q.docPath], 200, "ok")]
  /\ UNCHANGED << TELEGRAM_BOT_TOKEN, uniqueConstraint, shartnoma_zip, overlap,
                  begun, verifierVars, nameVars >>

(***************************************************************************)
(* GET                                                                     *)
(***************************************************************************)
Exists(exists, submission) == [exists |-> exists, submission |-> submission]
\* lines 60, 65: { exists: false }
NotExists == [exists |-> FALSE]

\* GET asking only whether the token verified, not whether it names a user.
GetVerifiedAnyUser(q, v) ==
  IF ~v.valid
    THEN Respond([q EXCEPT !.verdict = v, !.body = NotExists], 200, "ok")
  ELSE [q EXCEPT !.verdict = v, !.userId = v.userId, !.pc = "select"]

\* lines 57-66
\* lines 64-66: what GET does with the verifier's result v.
GetVerified(q, v) ==
  IF ~v.valid \/ FalsyNum(v.userId)
    THEN Respond([q EXCEPT !.verdict = v, !.body = NotExists], 200, "ok")
  ELSE [q EXCEPT !.verdict = v, !.userId = v.userId, !.pc = "select"]

GetChecked(q) ==
  IF FalsyStr(q.initData) \/ TELEGRAM_BOT_TOKEN = << >>
    THEN Respond([q EXCEPT !.body = NotExists], 200, "ok")
  ELSE GetVerified(q, Verified(q.initData.chars, TELEGRAM_BOT_TOKEN))

GetBegin(r, initDatas) ==
  /\ Free(r)
  /\ begun' = begun + 1
  /\ \E initData \in initDatas :
       req' = [req EXCEPT ![r] = GetChecked(Arrived("GET", initData, FormA, Null))]
  /\ UNCHANGED << TELEGRAM_BOT_TOKEN, uniqueConstraint, document_submissions,
                  shartnoma_zip, overlap, verifierVars, nameVars >>

\* lines 80-88
Submission(row) ==
  [ firstName |-> row.first_name, lastName |-> row.last_name,
    university |-> row.university, program |-> row.program, docPath |-> row.doc_path ]

\* A select without .eq("telegram_chat_id", userId): any row will do.
GetSelectUnfiltered(r) ==
  /\ req[r].method = "GET" /\ req[r].pc = "select"
  /\ LET q == Called(req[r], "select")
         data == 1..Len(document_submissions)
     IN \/ req' = [req EXCEPT ![r] = Respond(q, 500, "Tekshirishda xatolik")]
        \/ /\ data = {}
           /\ req' = [req EXCEPT ![r] =
                        Respond([q EXCEPT !.body = Exists(FALSE, Null)], 200, "ok")]
        \/ \E i \in data :
             req' = [req EXCEPT ![r] =
                       Respond([q EXCEPT !.body =
                                  Exists(TRUE, Submission(document_submissions[i]))],
                               200, "ok")]
  /\ UNCHANGED << TELEGRAM_BOT_TOKEN, uniqueConstraint, document_submissions,
                  shartnoma_zip, overlap, begun, verifierVars, nameVars >>

\* GET answering a failed select as if no row had been found.
GetSelectSwallowing(r) ==
  /\ req[r].method = "GET" /\ req[r].pc = "select"
  /\ LET q == Called(req[r], "select")
         data == Matching(q.userId)
     IN \/ req' = [req EXCEPT ![r] =
                     Respond([q EXCEPT !.body = Exists(FALSE, Null)], 200, "ok")]
        \/ /\ data = {}
           /\ req' = [req EXCEPT ![r] =
                        Respond([q EXCEPT !.body = Exists(FALSE, Null)], 200, "ok")]
        \/ \E i \in data :
             req' = [req EXCEPT ![r] =
                       Respond([q EXCEPT !.body =
                                  Exists(TRUE, Submission(document_submissions[i]))],
                               200, "ok")]
  /\ UNCHANGED << TELEGRAM_BOT_TOKEN, uniqueConstraint, document_submissions,
                  shartnoma_zip, overlap, begun, verifierVars, nameVars >>

\* lines 68-90
GetSelect(r) ==
  /\ req[r].method = "GET" /\ req[r].pc = "select"
  /\ LET q == Called(req[r], "select")
         data == Matching(q.userId)
     IN \/ req' = [req EXCEPT ![r] = Respond(q, 500, "Tekshirishda xatolik")]
        \/ /\ data = {}
           /\ req' = [req EXCEPT ![r] =
                        Respond([q EXCEPT !.body = Exists(FALSE, Null)], 200, "ok")]
        \/ \E i \in data :
             req' = [req EXCEPT ![r] =
                       Respond([q EXCEPT !.body =
                                  Exists(TRUE, Submission(document_submissions[i]))],
                               200, "ok")]
  /\ UNCHANGED << TELEGRAM_BOT_TOKEN, uniqueConstraint, document_submissions,
                  shartnoma_zip, overlap, begun, verifierVars, nameVars >>

\* The client has its response; the slot is free again.
Recycle(r) ==
  /\ req[r].pc = "done"
  /\ req' = [o \in Requests |->
               IF o = r THEN Idle ELSE [req[o] EXCEPT !.after = req[o].after \ {r}]]
  /\ UNCHANGED << TELEGRAM_BOT_TOKEN, uniqueConstraint, document_submissions,
                  shartnoma_zip, overlap, begun, verifierVars, nameVars >>

\* What the requests of the concurrent specification carry: init data that
\* is absent or verifies with an identity, a complete form, a document.
RacePostInitData == { Null, Str(TokenUser1), Str(TokenUser2) }
RacePutInitData == { Str(TokenUser1), Str(TokenUser2) }

\* Two requests at a time, each of them one the handlers do not turn away
\* before the first call to a store.
Next ==
  \E r \in Requests :
    \/ PostBegin(r, RacePostInitData, { FormA }, { FileZip })
    \/ PostSelect(r) \/ PostUpload(r) \/ PostInsert(r)
    \/ PutBegin(r, RacePutInitData, { FormB }, { Null, FileEmpty })
    \/ PutSelect(r) \/ PutUpload(r) \/ PutUpdate(r)
    \/ GetBegin(r, RacePutInitData)
    \/ GetSelect(r)
    \/ Recycle(r)

Spec == Init /\ [][Next]_vars

\* One request at a time, carrying anything.
SerialNext ==
  \/ PostBegin(1, InitDataChoices, FormChoices, DocumentChoices)
  \/ PostSelect(1) \/ PostUpload(1) \/ PostInsert(1)
  \/ PutBegin(1, InitDataChoices, FormChoices, DocumentChoices)
  \/ PutSelect(1) \/ PutUpload(1) \/ PutUpdate(1)
  \/ GetBegin(1, InitDataChoices)
  \/ GetSelect(1)
  \/ Recycle(1)

\* The lookup alone keeps requests that do not overlap from inserting a second
\* row of a user: the table has no unique index.
SerialInit == Init /\ ~uniqueConstraint

SerialSpec == SerialInit /\ [][SerialNext]_vars

(***************************************************************************)
(* What the claims about the verifier speak of, stated without the         *)
(* verifier's own steps.                                                   *)
(***************************************************************************)
Done(result) == result # NoResult
Valid(result) == Done(result) /\ ~result.threw /\ result.ret.valid
Invalid(result) == Done(result) /\ ~result.threw /\ result.ret = Result(FALSE, Null)
\* The first call has returned and no second call has been made.
FirstReturned == Done(vResult) /\ variant = "none"

\* The values of the pairs called name, in the token's order.
FieldsOf(params, name) ==
  LET idx == { i \in 1..Len(params) : params[i].key = name }
      nth(k) == CHOOSE i \in idx : Cardinality({ j \in idx : j < i }) = k - 1
  IN [k \in 1..Cardinality(idx) |-> params[nth(k)].value]

\* The token's hash field is the signature of its other pairs under secret.
WellSigned(initData, secret) ==
  LET params == URLSearchParams(initData)
      hashes == FieldsOf(params, K_hash)
  IN /\ Len(hashes) > 0
     /\ \A i \in 1..Len(hashes) : hashes[i] = SignatureOf(params, secret)

HasUser(initData) == Len(FieldsOf(URLSearchParams(initData), K_user)) > 0
UserText(initData) == FieldsOf(URLSearchParams(initData), K_user)[1]
UserParses(initData) == ~JsonParse(UserText(initData)).threw
\* The id of the user field, Null when the user has none.
UserId(initData) == OptionalId(JsonParse(UserText(initData)).value)

IsInteger(v) == v.type = "number" /\ v.frac = << >>

IdOfUser(initData) ==
  IF HasUser(initData) /\ UserParses(initData) THEN UserId(initData) ELSE Null

(***************************************************************************)
(* C4 (as stated): a token whose hash field is the signature of its other  *)
(* pairs under S verifies under S, with the id of its user field as        *)
(* userId, Null without a user field.                                      *)
(***************************************************************************)
C4_Original ==
  (FirstReturned /\ WellSigned(vInitData, vBotToken))
    => /\ Valid(vResult)
       /\ vResult.ret.userId = IdOfUser(vInitData)

\* C4 (amended): such a token verifies under S when its user field, if it has
\* a non-empty one, is parseable JSON; userId is the id of the (first) user
\* field when that id is a number, and Null otherwise.
C4_WellSignedVerifies ==
  (/\ FirstReturned
   /\ WellSigned(vInitData, vBotToken)
   /\ (HasUser(vInitData) /\ UserText(vInitData) # << >> => UserParses(vInitData)))
    => /\ Valid(vResult)
       /\ vResult.ret.userId =
            (IF IdOfUser(vInitData).type = "number" THEN IdOfUser(vInitData) ELSE Null)

\* A signed token of several pairs out of order, with a numeric user id, has
\* been verified.
C4_Witness ==
  /\ Done(vResult)
  /\ WellSigned(vInitData, vBotToken)
  /\ IdOfUser(vInitData) = IntNum(1)
  /\ CheckPairs(URLSearchParams(vInitData))
       # SortStrings(CheckPairs(URLSearchParams(vInitData)))
  /\ Valid(vResult)

(***************************************************************************)
(* C5: replacing one character of the hash field of a token that verifies  *)
(* under S by a different character gives a token that is Invalid under S. *)
(***************************************************************************)
C5_FlipInvalidates ==
  (/\ variant = "flip"
   /\ Valid(vResult)
   /\ wBotToken = vBotToken
   /\ Done(wResult))
    => Invalid(wResult)

(***************************************************************************)
(* C6 (as stated): two tokens with the same pairs in different orders get  *)
(* the same check string, the same signature and the same result.          *)
(***************************************************************************)
SameCheckString ==
  DataCheckString(URLSearchParams(vInitData)) = DataCheckString(URLSearchParams(wInitData))
SameSignature ==
  Computed(URLSearchParams(vInitData), vBotToken)
    = Computed(URLSearchParams(wInitData), wBotToken)
SameFirst(name) ==
  ParamsGet(URLSearchParams(vInitData), name) = ParamsGet(URLSearchParams(wInitData), name)

C6_Original ==
  (variant = "permute" /\ Done(vResult) /\ Done(wResult))
    => SameCheckString /\ SameSignature /\ wResult = vResult

\* C6 (amended): they get the same check string and signature, and the same
\* result when the same hash pair and the same user pair come first in both.
C6_OrderIndependent ==
  variant = "permute"
    => /\ SameCheckString
       /\ SameSignature
       /\ (Done(vResult) /\ Done(wResult) /\ SameFirst(K_hash) /\ SameFirst(K_user))
            => wResult = vResult

\* A valid token and a reordering of its signed pairs have both been verified.
C6_Witness ==
  /\ variant = "permute"
  /\ Valid(vResult) /\ Done(wResult)
  /\ CheckPairs(URLSearchParams(vInitData)) # CheckPairs(URLSearchParams(wInitData))
  /\ wResult = vResult

(***************************************************************************)
(* C7: the verifier returns Invalid, ValidNoIdentity or ValidWithIdentity  *)
(* and never raises; without a hash pair it returns Invalid.               *)
(***************************************************************************)
TriState(result) ==
  /\ ~result.threw
  /\ \/ result.ret = Result(FALSE, Null)
     \/ result.ret = Result(TRUE, Null)
     \/ result.ret.valid = TRUE /\ result.ret.userId.type = "number"

NoHashPair(initData) == Len(FieldsOf(URLSearchParams(initData), K_hash)) = 0

C7_NeverRaises ==
  /\ Done(vResult) => /\ TriState(vResult)
                      /\ NoHashPair(vInitData) => Invalid(vResult)
  /\ Done(wResult) => /\ TriState(wResult)
                      /\ NoHashPair(wInitData) => Invalid(wResult)

\* The body of a call raised, and the call returned Invalid.
C7_Witness ==
  /\ Done(wResult)
  /\ TryValidate(wInitData, wBotToken).threw
  /\ Invalid(wResult)

C9_OtherSecretFails ==
  (/\ variant = "secret"
   /\ Valid(vResult)
   /\ wInitData = vInitData
   /\ wBotToken # vBotToken
   /\ Done(wResult))
    => Invalid(wResult)

C9_Witness ==
  /\ variant = "secret"
  /\ Valid(vResult)
  /\ wBotToken # vBotToken
  /\ Invalid(wResult)


(***************************************************************************)
(* The route's claims                                                      *)
(***************************************************************************)
Rows == 1..Len(document_submissions)

AtMostOnePerIdentity ==
  \A i, j \in Rows :
    /\ document_submissions[i].telegram_chat_id # Null
    /\ document_submissions[i].telegram_chat_id = document_submissions[j].telegram_chat_id
    => i = j

Answered(q, status) == q.pc = "done" /\ q.response.status = status

InSequence(first, second) ==
  /\ begun = 2
  /\ req[first].method = "POST" /\ req[second].method = "POST"
  /\ first \in req[second].after
  /\ req[second].pc = "done"
  /\ req[first].userId # Null
  /\ req[first].userId = req[second].userId

\* C2: two POSTs of the same user on an empty table, the second arriving after
\* the first was answered and no call to a store failing: the first is
\* answered 200 after select, upload and insert and the user has one row; the
\* second is answered 409 after the select alone.
C2_SecondIsDuplicate ==
  \A first, second \in Requests :
    /\ InSequence(first, second)
    /\ ~Answered(req[first], 500) /\ ~Answered(req[second], 500)
    => /\ Answered(req[first], 200)
       /\ req[first].calls = << "select", "upload", "insert" >>
       /\ Cardinality(Matching(req[first].userId)) = 1
       /\ Answered(req[second], 409)
       /\ req[second].calls = << "select" >>

C2_Witness ==
  \E first, second \in Requests :
    /\ InSequence(first, second)
    /\ Answered(req[first], 200) /\ Answered(req[second], 409)

\* C3, as the specification states it: a POST whose insert is refused by the
\* unique index (SQLSTATE 23505) is answered 409, as by the duplicate check.
C3_Original ==
  \A r \in Requests :
    req[r].method = "POST" /\ req[r].pc = "done" /\ req[r].error = "23505"
    => Answered(req[r], 409)

CarriesToken(q) == ~FalsyStr(q.initData) /\ TELEGRAM_BOT_TOKEN # << >>

\* C10: a POST or PUT with init data, the bot token being set, has called no
\* store unless the verifier returned valid with a user id; a POST with all
\* its fields whose init data is invalid is answered 401, and one whose init
\* data is valid without a user id is answered 400, neither having called a
\* store.
C10_VerifiedBeforeStorage ==
  \A r \in Requests :
    LET q == req[r]
    IN /\ q.method \in { "POST", "PUT" } /\ CarriesToken(q) /\ q.calls # << >>
          => q.verdict # NoResult /\ q.verdict.valid /\ q.verdict.userId # Null
       /\ q.method = "POST" /\ CarriesToken(q) /\ q.verdict # NoResult /\ ~q.verdict.valid
          => Answered(q, 401) /\ q.calls = << >>
       /\ /\ q.method = "POST" /\ CarriesToken(q) /\ q.verdict # NoResult
          /\ q.verdict.valid /\ q.verdict.userId = Null
          => /\ Answered(q, 400)
             /\ q.response.message = "Telegram foydalanuvchisi aniqlanmadi"
             /\ q.calls = << >>

\* A POST with forged init data was answered 401 while the table has a row.
C10_Witness ==
  /\ document_submissions # << >>
  /\ \E r \in Requests :
       /\ req[r].method = "POST" /\ CarriesToken(req[r])
       /\ req[r].verdict # NoResult /\ ~req[r].verdict.valid
       /\ Answered(req[r], 401)

\* The verifier found the request's init data valid and gave no user id that
\* the handlers take (null or 0).
ValidNoUser(q) ==
  CarriesToken(q) /\ q.verdict # NoResult /\ q.verdict.valid /\ FalsyNum(q.verdict.userId)

\* The table has a row without telegram_chat_id whose document is at path.
AnonymousRowAt(path) ==
  \E i \in Rows :
    /\ document_submissions[i].telegram_chat_id = Null
    /\ document_submissions[i].doc_path = path

\* The request went through upload and insert and left a row without user.
SubmittedAnonymously(q) ==
  /\ Answered(q, 200)
  /\ q.calls = << "upload", "insert" >>
  /\ q.userId = Null
  /\ AnonymousRowAt(q.uploadPath)

\* C11, as the specification states it: a POST whose init data is valid
\* without a user id goes on as a POST without init data does: unless a store
\* fails it uploads and inserts a row without telegram_chat_id.
C11_Original ==
  \A r \in Requests :
    /\ req[r].method = "POST" /\ req[r].pc = "done"
    /\ ValidNoUser(req[r]) /\ ~Answered(req[r], 500)
    => SubmittedAnonymously(req[r])

\* C11: a POST whose init data is valid without a user id is answered 400
\* and calls no store; a POST with all its fields and no init data (or no bot
\* token set) uploads and, unless a store fails, inserts a row without
\* telegram_chat_id; a PUT whose init data is valid without a user id is
\* answered 401 and calls no store.
C11_NoUserRejected ==
  \A r \in Requests :
    LET q == req[r]
    IN /\ q.method = "POST" /\ ValidNoUser(q)
          => /\ Answered(q, 400)
             /\ q.response.message = "Telegram foydalanuvchisi aniqlanmadi"
             /\ q.calls = << >>
       /\ /\ q.method = "POST" /\ q.pc = "done" /\ ~CarriesToken(q)
          /\ ~MissingForm(q.form) /\ IsFile(q.document) /\ ~Answered(q, 500)
          => SubmittedAnonymously(q)
       /\ q.method = "PUT" /\ ValidNoUser(q)
          => Answered(q, 401) /\ q.calls = << >>

\* A POST whose init data is signed and names no user was answered 400 after
\* a POST without init data had left its row.
C11_Witness ==
  /\ \E i \in Rows : document_submissions[i].telegram_chat_id = Null
  /\ \E r \in Requests :
       /\ req[r].method = "POST" /\ ValidNoUser(req[r])
       /\ req[r].verdict.userId = Null
       /\ Answered(req[r], 400)

\* The PUT in slot r makes its select in this step and the select succeeds.
PutSelects(r) ==
  /\ req[r].method = "PUT" /\ req[r].pc = "select"
  /\ req'[r].pc # "select"
  /\ ~(req'[r].pc = "done" /\ req'[r].response.status = 500)

\* C12: a PUT whose select succeeds and finds no row of its user is answered
\* 404 by that step, having called nothing but the select, and the step
\* changes no row and no object of the bucket, document or not.
C12_NoRowNotFound ==
  [][\A r \in Requests :
       PutSelects(r) /\ Matching(req[r].userId) = {}
       => /\ req'[r].pc = "done" /\ req'[r].response.status = 404
          /\ req'[r].calls = << "select" >>
          /\ document_submissions' = document_submissions
          /\ shartnoma_zip' = shartnoma_zip]_vars

\* A PUT with a document was answered 404 while the table has a row of
\* another user.
C12_Witness ==
  \E r \in Requests :
    /\ req[r].method = "PUT" /\ Answered(req[r], 404)
    /\ IsFile(req[r].document)
    /\ Matching(req[r].userId) = {}
    /\ document_submissions # << >>

\* The PUT in slot r makes its update in this step and the update succeeds.
PutUpdates(r) ==
  /\ req[r].method = "PUT" /\ req[r].pc = "update"
  /\ req'[r].pc = "done" /\ req'[r].response.status = 200

\* C13: when requests do not overlap, a successful update without a document
\* leaves doc_path of the user's row as it was and answers that path; a
\* successful update with a document writes the path of the object it has
\* just uploaded, answers that path, and that path is not the one the row
\* had.
C13_DocPathKeptOrReplaced ==
  [][\A r \in Requests :
       PutUpdates(r)
       => /\ Matching(req[r].userId) # {}
          /\ \A i \in Matching(req[r].userId) :
               IF IsFile(req[r].document)
                 THEN /\ document_submissions'[i].doc_path = req[r].uploadPath
                      /\ req'[r].response.status = 200
                      /\ req'[r].body = req[r].uploadPath
                      /\ req[r].uploadPath # document_submissions[i].doc_path
                      /\ [path |-> req[r].uploadPath, file |-> req[r].document]
                           \in shartnoma_zip
                 ELSE /\ document_submissions'[i].doc_path
                           = document_submissions[i].doc_path
                      /\ req'[r].body = document_submissions[i].doc_path
                      /\ req[r].uploadPath = Null]_vars

\* A PUT with a document has succeeded: the user's row names the answered
\* path, and the object of the path it replaced is still in the bucket.
C13_Witness ==
  \E r \in Requests :
    /\ req[r].method = "PUT" /\ Answered(req[r], 200)
    /\ IsFile(req[r].document)
    /\ \E i \in Matching(req[r].userId) :
         document_submissions[i].doc_path = req[r].body
    /\ \E o \in shartnoma_zip : o.path # req[r].body

\* A request of the given method arrives in slot r in this step.
Begins(r, method) == req[r].method = "idle" /\ req'[r].method = method

\* C14: a PUT that arrives without init data, or while TELEGRAM_BOT_TOKEN is
\* unset, is answered 400 "Telegram ma'lumotlari kerak" in the step it
\* arrives in: the verifier has given no verdict, no storage call was made,
\* and the table and the bucket are as they were.
C14_SessionRequired ==
  [][\A r \in Requests :
       Begins(r, "PUT") /\ ~CarriesToken(req'[r])
       => /\ req'[r].pc = "done"
          /\ req'[r].response = Response(400, "Telegram ma'lumotlari kerak")
          /\ req'[r].verdict = NoResult
          /\ req'[r].calls = << >>
          /\ document_submissions' = document_submissions
          /\ shartnoma_zip' = shartnoma_zip]_vars

\* A PUT with a well-formed token, a complete form and a document was turned
\* away with 400 because no secret is configured, the table not being empty.
C14_Witness ==
  \E r \in Requests :
    /\ req[r].method = "PUT" /\ Answered(req[r], 400)
    /\ req[r].response.message = "Telegram ma'lumotlari kerak"
    /\ ~FalsyStr(req[r].initData) /\ TELEGRAM_BOT_TOKEN = << >>
    /\ ~MissingForm(req[r].form) /\ IsFile(req[r].document)
    /\ document_submissions # << >>

\* A POST with every field and a document, and no token or no secret.
AnonymousPost(q) ==
  /\ q.method = "POST" /\ ~CarriesToken(q)
  /\ ~MissingForm(q.form) /\ IsFile(q.document)

\* C15: a complete POST without token or secret goes straight to the upload;
\* its upload either fails with 500 or leads to the insert; its insert either
\* fails with 500, never as a conflict, or appends one row whose
\* telegram_chat_id is null and answers 200.  It is never answered 409,
\* however many such rows there are and whether or not the table has a
\* unique index.
C15_AnonymousNeverConflicts ==
  [][\A r \in Requests :
       /\ Begins(r, "POST") /\ AnonymousPost(req'[r])
          => req'[r].pc = "upload" /\ req'[r].userId = Null /\ req'[r].calls = << >>
       /\ AnonymousPost(req[r]) /\ req[r].pc = "upload" /\ req'[r].pc # "upload"
          => \/ req'[r].pc = "insert"
                /\ [path |-> req'[r].uploadPath, file |-> req[r].document] \in shartnoma_zip'
             \/ req'[r].pc = "done"
                /\ req'[r].response = Response(500, "Failed to upload document")
       /\ AnonymousPost(req[r]) /\ req[r].pc = "insert" /\ req'[r].pc # "insert"
          => \/ /\ req'[r].pc = "done" /\ req'[r].response.status = 200
                /\ document_submissions' =
                     Append(document_submissions, Row(req[r].form, req[r].uploadPath, Null))
             \/ /\ req'[r].pc = "done"
                /\ req'[r].response = Response(500, "Failed to save submission")
                /\ req'[r].error = "failed"
                /\ document_submissions' = document_submissions]_vars

\* Under a unique index the table holds two rows with a null
\* telegram_chat_id, and the anonymous POST that wrote the second one has
\* been answered 200.
C15_Witness ==
  /\ uniqueConstraint
  /\ Len(document_submissions) = 2
  /\ \A i \in Rows : document_submissions[i].telegram_chat_id = Null
  /\ \E r \in Requests :
       /\ AnonymousPost(req[r]) /\ Answered(req[r], 200)
       /\ document_submissions[2].doc_path = req[r].uploadPath

\* The verifier was run on the request's token and did not give a user.
Unidentified(q) ==
  /\ CarriesToken(q)
  /\ q.verdict = Verified(q.initData.chars, TELEGRAM_BOT_TOKEN)
  /\ ~q.verdict.valid \/ FalsyNum(q.verdict.userId)

\* C16: a GET without init data, or with TELEGRAM_BOT_TOKEN unset, or whose
\* init data does not verify, or verifies without a user id, is answered
\* 200 {exists: false} and has made no storage call; every other GET has
\* a verified non-null user id.
C16_NoQueryWithoutIdentity ==
  \A r \in Requests :
    req[r].method = "GET"
    => IF ~CarriesToken(req[r]) \/ Unidentified(req[r])
         THEN /\ Answered(req[r], 200)
              /\ req[r].body = NotExists
              /\ req[r].calls = << >>
              /\ ~CarriesToken(req[r]) => req[r].verdict = NoResult
         ELSE /\ req[r].verdict.valid
              /\ req[r].userId = req[r].verdict.userId
              /\ ~FalsyNum(req[r].userId)

\* A GET whose token verifies but names no user was answered
\* {exists: false} while the table holds a row.
C16_Witness ==
  \E r \in Requests :
    /\ req[r].method = "GET" /\ ValidNoUser(req[r])
    /\ Answered(req[r], 200) /\ req[r].body = NotExists
    /\ document_submissions # << >>

\* The body of a 200 answer that says whether a row exists.
SaysExists(q) ==
  /\ Answered(q, 200)
  /\ "exists" \in DOMAIN q.body
  /\ q.body.exists \in BOOLEAN

\* C17 as claimed: every finished GET has a 200 answer carrying a boolean
\* exists, whatever the select did.
C17_Original ==
  \A r \in Requests :
    req[r].method = "GET" /\ req[r].pc = "done" => SaysExists(req[r])

\* C17: no step of a GET changes the table or the bucket.  A GET that does
\* not reach the select is answered 200 {exists: false}.  The select step
\* ends the GET either with 500 "Tekshirishda xatolik" and no exists, or with
\* 200 and exists telling whether the table has a row of the user, the
\* submission being that row's projection.
C17_LookupReadsOnly ==
  [][\A r \in Requests :
       /\ Begins(r, "GET") \/ (req[r].method = "GET" /\ req'[r].pc # req[r].pc)
          => /\ document_submissions' = document_submissions
             /\ shartnoma_zip' = shartnoma_zip
       /\ Begins(r, "GET") /\ req'[r].pc = "done"
          => SaysExists(req'[r]) /\ ~req'[r].body.exists
       /\ req[r].method = "GET" /\ req[r].pc = "select" /\ req'[r].pc # "select"
          => /\ req'[r].pc = "done"
             /\ \/ /\ req'[r].response = Response(500, "Tekshirishda xatolik")
                   /\ "exists" \notin DOMAIN req'[r].body
                \/ /\ SaysExists(req'[r])
                   /\ req'[r].body.exists = (Matching(req[r].userId) # {})
                   /\ IF req'[r].body.exists
                        THEN \E i \in Matching(req[r].userId) :
                               req'[r].body.submission = Submission(document_submissions[i])
                        ELSE req'[r].body.submission = Null]_vars

\* A GET of a user who has a row was answered 500 after its select.
C17_Witness ==
  \E r \in Requests :
    /\ req[r].method = "GET" /\ Answered(req[r], 500)
    /\ req[r].response.message = "Tekshirishda xatolik"
    /\ req[r].calls = << "select" >>
    /\ Matching(req[r].userId) # {}

\* C18: a POST that lacks firstName, lastName, university or program, or
\* whose document is absent or has no bytes, is answered 400 "Missing
\* required fields" with no verdict of the verifier and no storage call.
C18_MissingFields ==
  \A r \in Requests :
    /\ req[r].method = "POST"
    /\ \/ MissingForm(req[r].form)
       \/ ~IsFile(req[r].document)
       \/ req[r].document.size = 0
    => /\ Answered(req[r], 400)
       /\ req[r].response.message = "Missing required fields"
       /\ req[r].verdict = NoResult
       /\ req[r].calls = << >>

\* The POST q uploaded its document and then failed to insert its row.
InsertFailed(q) ==
  /\ q.method = "POST" /\ q.pc = "done"
  /\ q.calls # << >> /\ q.calls[Len(q.calls)] = "insert"
  /\ q.error # ""

\* C19: a POST whose insert failed after its upload is answered 500 "Failed
\* to save submission"; the object it uploaded is in the bucket under its
\* path with the document as content, and no row of the table has that path
\* as doc_path.
C19_OrphanedUpload ==
  \A r \in Requests :
    InsertFailed(req[r])
    => /\ req[r].response = Response(500, "Failed to save submission")
       /\ req[r].uploadPath # Null
       /\ [path |-> req[r].uploadPath, file |-> req[r].document] \in shartnoma_zip
       /\ \A i \in Rows : document_submissions[i].doc_path # req[r].uploadPath

\* The insert of a POST failed while the table already had a row and the
\* bucket that row's object: the bucket now holds one object more than the
\* table names.
C19_Witness ==
  \E r \in Requests :
    /\ InsertFailed(req[r])
    /\ document_submissions # << >>
    /\ \E o \in shartnoma_zip :
         /\ o.path = req[r].uploadPath
         /\ \A i \in Rows : document_submissions[i].doc_path # o.path
    /\ \E o \in shartnoma_zip, i \in Rows : document_submissions[i].doc_path = o.path

\* The request in slot r makes its upload in this step.
Uploads(r) == req[r].pc = "upload" /\ req'[r].pc # "upload"

UploadFailure(q) ==
  IF q.method = "POST" THEN "Failed to upload document" ELSE "Faylni yuklashda xatolik"

\* C20: every object of the bucket stays in it with its content, and no
\* path ever holds two contents.  An upload step either writes the document
\* under a path that was free, adding that one object, or is answered 500
\* with the handler's upload failure and leaves the bucket alone; when every
\* path it could generate is occupied it is answered 500.
C20_NeverOverwritten ==
  [][/\ shartnoma_zip \subseteq shartnoma_zip'
     /\ \A o, p \in shartnoma_zip' : o.path = p.path => o = p
     /\ \A r \in Requests :
          Uploads(r)
          => \/ /\ req'[r].pc \in { "insert", "update" }
                /\ ~Occupied(req'[r].uploadPath)
                /\ shartnoma_zip' = shartnoma_zip
                     \cup { [path |-> req'[r].uploadPath, file |-> req[r].document] }
             \/ /\ req'[r].pc = "done"
                /\ req'[r].response = Response(500, UploadFailure(req[r]))
                /\ shartnoma_zip' = shartnoma_zip
     /\ \A r \in Requests :
          /\ Uploads(r)
          /\ \A stamp \in 1..NumStamps : Occupied(FilePath(stamp, req[r].document.name))
          => req'[r].pc = "done"]_vars

\* An upload was refused while every path it could have taken holds an
\* object, one of them with a content other than the refused document.
C20_Witness ==
  \E r \in Requests :
    /\ req[r].pc = "done" /\ req[r].calls # << >>
    /\ req[r].calls[Len(req[r].calls)] = "upload"
    /\ Answered(req[r], 500)
    /\ \A stamp \in 1..NumStamps : Occupied(FilePath(stamp, req[r].document.name))
    /\ \E o \in shartnoma_zip : o.file # req[r].document

\* The row has the four fields of the form.
FieldsAre(row, form) ==
  /\ row.first_name = form.firstName /\ row.last_name = form.lastName
  /\ row.university = form.university /\ row.program = form.program

\* The user's rows are as a successful PUT of q's form and document leaves
\* them: the fields are the form's, and when q has a document doc_path names
\* an object of the bucket with that content.
AsAfter(q) ==
  /\ Matching(q.userId) # {}
  /\ \A i \in Matching(q.userId) :
       /\ FieldsAre(document_submissions[i], q.form)
       /\ IsFile(q.document)
          => [path |-> document_submissions[i].doc_path, file |-> q.document]
               \in shartnoma_zip

\* C21 as claimed: a successful PUT applied to rows that are as a PUT of the
\* same form and document leaves them changes no row, doc_path included.
C21_Original ==
  [][\A r \in Requests :
       PutUpdates(r) /\ AsAfter(req[r])
       => document_submissions' = document_submissions]_vars

\* C21: when requests do not overlap, a successful PUT without a document
\* applied to rows that are as a PUT of the same form leaves them changes no
\* row; with a document it leaves the fields as they are and replaces
\* doc_path by the path of a new object with the same content.
C21_IdempotentWithoutDocument ==
  [][\A r \in Requests :
       PutUpdates(r) /\ AsAfter(req[r])
       => IF IsFile(req[r].document)
            THEN \A i \in Matching(req[r].userId) :
                   /\ FieldsAre(document_submissions'[i], req[r].form)
                   /\ document_submissions'[i].doc_path # document_submissions[i].doc_path
                   /\ [path |-> document_submissions'[i].doc_path, file |-> req[r].document]
                        \in shartnoma_zip
            ELSE document_submissions' = document_submissions]_vars

\* The third request of a behaviour is a PUT without a document that has
\* succeeded; the user's row has its form and the path it answered, and the
\* bucket holds the one object the row's POST uploaded.
C21_Witness ==
  \E r \in Requests :
    /\ req[r].method = "PUT" /\ Answered(req[r], 200)
    /\ ~IsFile(req[r].document)
    /\ begun = 3
    /\ AsAfter(req[r])
    /\ \A i \in Matching(req[r].userId) : document_submissions[i].doc_path = req[r].body
    /\ Cardinality(shartnoma_zip) = 1

\* C22: no step removes a row or changes a row's telegram_chat_id: the table
\* only grows at its end, so a user who has a row has one in every later
\* state.
C22_RowsStay ==
  [][/\ Len(document_submissions') >= Len(document_submissions)
     /\ \A i \in Rows :
          document_submissions'[i].telegram_chat_id
            = document_submissions[i].telegram_chat_id
     /\ \A r \in Requests :
          req[r].userId # Null /\ Matching(req[r].userId) # {} /\ req'[r].userId = req[r].userId
          => \E i \in 1..Len(document_submissions') :
               document_submissions'[i].telegram_chat_id = req[r].userId]_vars

\* A PUT has rewritten the row of its user while the table holds a second
\* row, and the row still has the user's id.
C22_Witness ==
  /\ Len(document_submissions) = 2
  /\ \E r \in Requests :
       /\ req[r].method = "PUT" /\ Answered(req[r], 200)
       /\ \E i \in Rows :
            /\ document_submissions[i].telegram_chat_id = req[r].userId
            /\ FieldsAre(document_submissions[i], req[r].form)

\* The characters of [A-Za-z0-9.-].
Kept ==
  { "A", "B", "C", "D", "E", "F", "G", "H", "I", "J", "K", "L", "M",
    "N", "O", "P", "Q", "R", "S", "T", "U", "V", "W", "X", "Y", "Z" }
  \cup { "a", "b", "c", "d", "e", "f", "g", "h", "i", "j", "k", "l", "m",
         "n", "o", "p", "q", "r", "s", "t", "u", "v", "w", "x", "y", "z" }
  \cup { "0", "1", "2", "3", "4", "5", "6", "7", "8", "9" }
  \cup { ".", "-" }

\* My_Report__v2__.zip
LongNameSafe ==
  << "M", "y", "_", "R", "e", "p", "o", "r", "t", "_", "_", "v", "2", "_", "_",
     ".", "z", "i", "p" >>

\* C23: the safe name is as long as the name; at every position it has the
\* name's character when that is a letter, a digit, a dot or a hyphen, and
\* an underscore otherwise, so it has no slash or backslash; the safe name of
\* "My Report (v2)!.zip" is "My_Report__v2__.zip".
C23_SafeName ==
  safeFileName # NoResult
  => /\ Len(safeFileName.value) = Len(documentName)
     /\ \A i \in 1..Len(documentName) :
          /\ documentName[i] \in Kept => safeFileName.value[i] = documentName[i]
          /\ documentName[i] \notin Kept => safeFileName.value[i] = "_"
          /\ safeFileName.value[i] \notin { "/", "\\" }
     /\ documentName = LongName => safeFileName.value = LongNameSafe

\* The name "/.a" has been made safe: the slash is gone, the rest is kept.
C23_Witness ==
  /\ documentName = << "/", ".", "a" >>
  /\ safeFileName = [value |-> << "_", ".", "a" >>]

\* z.enum(["bachelors", "masters", "phd"]) of the form's schema.
Programs ==
  { Str(<< "b", "a", "c", "h", "e", "l", "o", "r", "s" >>),
    Str(<< "m", "a", "s", "t", "e", "r", "s" >>),
    Str(<< "p", "h", "d" >>) }

\* C24: the program of every row of the table is bachelors, masters or phd.
C24_ProgramOfEnum ==
  \A i \in Rows : document_submissions[i].program \in Programs

\* Neither of the two requests had been answered when the other arrived.
Overlapped(r, o) == r \notin req[o].after /\ o \notin req[r].after

\* C25: when a PUT without a document and a PUT with a document of the same
\* user have overlapped and both have been answered 200, doc_path of the
\* user's rows is the path the PUT with the document uploaded to.
C25_NewPathSurvives ==
  \A r, o \in Requests :
    /\ r # o /\ Overlapped(r, o)
    /\ req[r].method = "PUT" /\ Answered(req[r], 200) /\ ~IsFile(req[r].document)
    /\ req[o].method = "PUT" /\ Answered(req[o], 200) /\ IsFile(req[o].document)
    /\ req[r].userId = req[o].userId
    => \A i \in Matching(req[o].userId) :
         document_submissions[i].doc_path = req[o].uploadPath

\* The PUT in slot r takes a step of its own.
PutSteps(r) ==
  \/ Begins(r, "PUT")
  \/ req[r].method = "PUT" /\ req'[r].pc # req[r].pc

\* C26: a step of a PUT leaves every row whose telegram_chat_id is not the
\* PUT's verified user id, the rows with a null telegram_chat_id among them,
\* exactly as it was; and a PUT's user id is never null when it reaches the
\* table.
C26_OnlyOwnRows ==
  [][\A r \in Requests :
       PutSteps(r)
       => /\ Len(document_submissions') = Len(document_submissions)
          /\ \A i \in Rows :
               \/ document_submissions'[i] = document_submissions[i]
               \/ /\ req[r].pc = "update"
                  /\ req[r].userId # Null
                  /\ document_submissions[i].telegram_chat_id = req[r].userId]_vars

\* A PUT has rewritten its user's row while the table holds a row with no
\* telegram_chat_id, which does not have the PUT's form.
C26_Witness ==
  \E r \in Requests :
    /\ req[r].method = "PUT" /\ Answered(req[r], 200)
    /\ \E i \in Matching(req[r].userId) : FieldsAre(document_submissions[i], req[r].form)
    /\ \E j \in Rows :
         /\ document_submissions[j].telegram_chat_id = Null
         /\ ~FieldsAre(document_submissions[j], req[r].form)

\* The verifier has accepted the request's token and given a user id.
ValidWithUser(q) ==
  /\ CarriesToken(q) /\ q.verdict # NoResult
  /\ q.verdict.valid /\ q.verdict.userId # Null

\* C27: a request whose token the verifier accepts with a user id, 0
\* included, goes on as that user: it is not turned away as unidentified
\* (400 for POST, 401 for PUT, {exists: false} without a select for GET), and
\* the row a POST inserts has the id as telegram_chat_id.
C27_EveryIdResolved ==
  \A r \in Requests :
    ValidWithUser(req[r])
    => /\ InProgress(req[r]) => req[r].userId = req[r].verdict.userId
       /\ req[r].method = "POST" => ~Answered(req[r], 400)
       /\ req[r].method = "PUT" => ~Answered(req[r], 401)
       /\ req[r].method = "GET" /\ req[r].pc = "done" => req[r].calls = << "select" >>
       /\ req[r].method = "POST" /\ Answered(req[r], 200)
          => \E i \in Rows :
               /\ document_submissions[i].telegram_chat_id = req[r].verdict.userId
               /\ document_submissions[i].doc_path = req[r].uploadPath

\* How many of the calls are one of the given operations.
Count(calls, ops) == Cardinality({ i \in 1..Len(calls) : calls[i] \in ops })

\* C28: a step of a POST or PUT after its arrival makes exactly one storage
\* call and either ends the request or leaves it waiting for a call it has
\* not made yet; a request has made at most one upload and at most one
\* insert or update; the step after which a call has failed ends the request
\* with status 500.  So a request makes at most three storage calls and is
\* answered when the last of them returns.
C28_OneCallEachNoRetry ==
  [][\A r \in Requests :
       /\ req[r].method \in { "POST", "PUT" }
       /\ req'[r].method = req[r].method
       /\ req'[r].calls # req[r].calls \/ req'[r].pc # req[r].pc
       => /\ req[r].pc \in { "select", "upload", "insert", "update" }
          /\ req'[r].calls = Append(req[r].calls, req[r].pc)
          /\ Count(req[r].calls, { req[r].pc }) = 0
          /\ Count(req'[r].calls, { "upload" }) <= 1
          /\ Count(req'[r].calls, { "insert", "update" }) <= 1
          /\ Len(req'[r].calls) <= 3
          /\ \/ req'[r].pc = "done"
             \/ /\ req'[r].pc \in { "upload", "insert", "update" }
                /\ Count(req'[r].calls, { req'[r].pc }) = 0
          /\ req'[r].error # "" => req'[r].pc = "done" /\ req'[r].response.status = 500
          /\ req[r].pc = "upload" /\ req'[r].pc # "done"
             => \E o \in shartnoma_zip' : o.path = req'[r].uploadPath
          /\ req[r].pc = "upload" /\ req'[r].pc = "done"
             => req'[r].response.status = 500 /\ shartnoma_zip' = shartnoma_zip]_vars

\* A PUT with a document was answered 500 after its upload, the second of
\* its calls, and made no third.
C28_Witness ==
  \E r \in Requests :
    /\ req[r].method = "PUT" /\ Answered(req[r], 500)
    /\ req[r].calls = << "select", "upload" >>
    /\ req[r].response.message = "Faylni yuklashda xatolik"

\* C29: an upload step that stores no object ends the request with status
\* 500 and the handler's upload failure message; the request has made no
\* insert and no update, the step leaves the table as it is, and so does
\* every later step of the answered request.
C29_UploadFailureWritesNothing ==
  [][\A r \in Requests :
       /\ Uploads(r) /\ shartnoma_zip' = shartnoma_zip
          => /\ req'[r].pc = "done"
             /\ req'[r].response = Response(500, UploadFailure(req[r]))
             /\ req'[r].uploadPath = Null
             /\ Count(req'[r].calls, { "insert", "update" }) = 0
             /\ document_submissions' = document_submissions
       /\ req[r].pc = "done"
          => document_submissions' = document_submissions]_vars

\* The upload of a PUT has failed: the PUT was answered 500 after select
\* and upload, and the user's row does not have the fields the PUT carried.
C29_Witness ==
  \E r \in Requests :
    /\ req[r].method = "PUT" /\ Answered(req[r], 500)
    /\ req[r].calls = << "select", "upload" >>
    /\ req[r].uploadPath = Null
    /\ \E i \in Matching(req[r].userId) : ~FieldsAre(document_submissions[i], req[r].form)

\* The GET in slot r makes its select in this step and is answered 200.
GetSelects(r) ==
  /\ req[r].method = "GET" /\ req[r].pc = "select"
  /\ req'[r].pc = "done" /\ req'[r].response.status = 200

\* The rows whose telegram_chat_id is the given user id.
RowsOf(userId) == { i \in Rows : document_submissions[i].telegram_chat_id = userId }

\* C30: a GET that reaches the select has the user id the verifier gave for
\* its token, and it is not null.  When the select succeeds, exists is TRUE
\* exactly if some row has that telegram_chat_id; the submission is then the
\* five shown fields of such a row, without the telegram_chat_id, and is
\* null otherwise.
C30_LookupByIdentity ==
  [][\A r \in Requests :
       GetSelects(r)
       => /\ req[r].userId = Verified(req[r].initData.chars, TELEGRAM_BOT_TOKEN).userId
          /\ req[r].userId # Null
          /\ req'[r].body.exists = (RowsOf(req[r].userId) # {})
          /\ req'[r].body.exists
             => /\ \E i \in RowsOf(req[r].userId) :
                     LET row == document_submissions[i]
                     IN req'[r].body.submission =
                          [ firstName |-> row.first_name, lastName |-> row.last_name,
                            university |-> row.university, program |-> row.program,
                            docPath |-> row.doc_path ]
                /\ "telegram_chat_id" \notin DOMAIN req'[r].body.submission
          /\ ~req'[r].body.exists => req'[r].body.submission = Null]_vars

\* A GET of a user without a row was answered exists FALSE after its select
\* while the table holds a row of another user and a row of nobody.
C30_Witness ==
  \E r \in Requests :
    /\ req[r].method = "GET" /\ Answered(req[r], 200)
    /\ req[r].calls = << "select" >>
    /\ req[r].body.exists = FALSE
    /\ \E i, j \in Rows :
         /\ document_submissions[i].telegram_chat_id = Null
         /\ document_submissions[j].telegram_chat_id \notin { Null, req[r].userId }

====
